---- MODULE Spec2Model ----
(***************************************************************************)
(* SkillSync Automator (src/main.py): the resume tailoring and             *)
(* consistency-audit pipeline of SkillSyncAutomator.run_automation.        *)
(*                                                                         *)
(* Texts are TLA+ strings handled character by character.  In a string     *)
(* literal "\n" is the newline character and "\\n" is the two characters   *)
(* backslash, n: the Python source writes '\\n' (backslash, n) wherever it *)
(* splits or joins "lines", and real newlines only inside its triple-      *)
(* quoted templates.                                                       *)
(*                                                                         *)
(* Scores are kept exact: hallucination_score and overall_score in tenths  *)
(* (they are multiples of 0.5 and 2.5), match_score as a fraction          *)
(* num/den.                                                                *)
(***************************************************************************)
EXTENDS Integers, Sequences, FiniteSets, TLC

(***************************************************************************)
(* Python str operations                                                   *)
(***************************************************************************)
Min(a, b) == IF a <= b THEN a ELSE b

Max(a, b) == IF a >= b THEN a ELSE b

Range(f) == {f[i] : i \in DOMAIN f}

Char(s, i) == SubSeq(s, i, i)

UpperLetters == "ABCDEFGHIJKLMNOPQRSTUVWXYZ"

LowerLetters == "abcdefghijklmnopqrstuvwxyz"

LetterIndex(alphabet, c) == CHOOSE i \in 1..Len(alphabet) : Char(alphabet, i) = c

UpperSet == {Char(UpperLetters, i) : i \in 1..Len(UpperLetters)}

LowerSet == {Char(LowerLetters, i) : i \in 1..Len(LowerLetters)}

LowerMap == [c \in UpperSet |-> Char(LowerLetters, LetterIndex(UpperLetters, c))]

UpperMap == [c \in LowerSet |-> Char(UpperLetters, LetterIndex(LowerLetters, c))]

LowerChar(c) == IF c \in UpperSet THEN LowerMap[c] ELSE c

UpperChar(c) == IF c \in LowerSet THEN UpperMap[c] ELSE c

RECURSIVE LowerRange(_, _, _)
LowerRange(s, lo, hi) ==
    IF lo > hi THEN ""
    ELSE IF lo = hi THEN LowerChar(Char(s, lo))
    ELSE LET mid == (lo + hi) \div 2
         IN  LowerRange(s, lo, mid) \o LowerRange(s, mid + 1, hi)

\* str.lower()
Lower(s) == LowerRange(s, 1, Len(s))

RECURSIVE UpperRange(_, _, _)
UpperRange(s, lo, hi) ==
    IF lo > hi THEN ""
    ELSE IF lo = hi THEN UpperChar(Char(s, lo))
    ELSE LET mid == (lo + hi) \div 2
         IN  UpperRange(s, lo, mid) \o UpperRange(s, mid + 1, hi)

\* str.upper()
Upper(s) == UpperRange(s, 1, Len(s))

\* s[:n]
Prefix(s, n) == SubSeq(s, 1, Min(n, Len(s)))

\* the characters str.strip() and str.split() treat as whitespace
Whitespace == {" ", "\n", "\t", "\r", "\f"}

IsSpace(c) == c \in Whitespace

RECURSIVE FirstNonSpace(_, _)
FirstNonSpace(s, i) ==
    IF i > Len(s) THEN i
    ELSE IF IsSpace(Char(s, i)) THEN FirstNonSpace(s, i + 1) ELSE i

RECURSIVE LastNonSpace(_, _)
LastNonSpace(s, i) ==
    IF i < 1 THEN i
    ELSE IF IsSpace(Char(s, i)) THEN LastNonSpace(s, i - 1) ELSE i

\* str.strip()
Strip(s) == SubSeq(s, FirstNonSpace(s, 1), LastNonSpace(s, Len(s)))

SetMin(S) == CHOOSE i \in S : \A j \in S : i <= j

\* the first index >= from at which pat occurs in s, 0 if none (str.find + 1)
IndexOf(s, pat, from) ==
    LET hits == {i \in from..(Len(s) - Len(pat) + 1) : SubSeq(s, i, i + Len(pat) - 1) = pat}
    IN  IF hits = {} THEN 0 ELSE SetMin(hits)

\* pat in s
Contains(s, pat) == IndexOf(s, pat, 1) > 0

RECURSIVE SplitFrom(_, _, _)
SplitFrom(s, sep, from) ==
    LET i == IndexOf(s, sep, from)
    IN  IF i = 0 THEN <<SubSeq(s, from, Len(s))>>
        ELSE <<SubSeq(s, from, i - 1)>> \o SplitFrom(s, sep, i + Len(sep))

\* s.split(sep) with an explicit separator: empty pieces are kept
Split(s, sep) == SplitFrom(s, sep, 1)

RECURSIVE NextSpace(_, _)
NextSpace(s, i) ==
    IF i > Len(s) THEN i
    ELSE IF IsSpace(Char(s, i)) THEN i ELSE NextSpace(s, i + 1)

\* the indices at which a maximal run of non-whitespace characters starts
WordStarts(s) ==
    {i \in 1..Len(s) : ~IsSpace(Char(s, i)) /\ (i = 1 \/ IsSpace(Char(s, i - 1)))}

\* set(s.split()): the maximal runs of non-whitespace characters
Words(s) == {SubSeq(s, b, NextSpace(s, b) - 1) : b \in WordStarts(s)}

RECURSIVE JoinFrom(_, _, _)
JoinFrom(seq, sep, i) ==
    IF i > Len(seq) THEN ""
    ELSE IF i = Len(seq) THEN seq[i]
    ELSE seq[i] \o sep \o JoinFrom(seq, sep, i + 1)

\* sep.join(seq)
Join(seq, sep) == JoinFrom(seq, sep, 1)

RECURSIVE ReplaceFrom(_, _, _, _)
ReplaceFrom(s, old, new, from) ==
    LET i == IndexOf(s, old, from)
    IN  IF i = 0 THEN SubSeq(s, from, Len(s))
        ELSE SubSeq(s, from, i - 1) \o new \o ReplaceFrom(s, old, new, i + Len(old))

\* s.replace(old, new), old non-empty
Replace(s, old, new) == ReplaceFrom(s, old, new, 1)

\* seq[:n]
Take(seq, n) == SubSeq(seq, 1, Min(n, Len(seq)))

(***************************************************************************)
(* Program data                                                            *)
(***************************************************************************)
\* search_jobs: the three mock postings; date is datetime.now() as %Y%m%d
MockJobs(date) ==
    << [id |-> "job_" \o date \o "_001",
        title |-> "Senior Software Engineer",
        company |-> "TechCorp Inc.",
        description |-> "We are looking for a senior software engineer with experience in React, Node.js, and AWS. You will work on scalable web applications and mentor junior developers.",
        requirements |-> <<"5+ years experience", "React", "Node.js", "AWS", "TypeScript">>],
       [id |-> "job_" \o date \o "_002",
        title |-> "Full Stack Developer",
        company |-> "StartupXYZ",
        description |-> "Join our fast-growing startup as a full stack developer. Work with modern technologies including React, Python, and PostgreSQL.",
        requirements |-> <<"3+ years experience", "JavaScript", "Python", "PostgreSQL", "Docker">>],
       [id |-> "job_" \o date \o "_003",
        title |-> "DevOps Engineer",
        company |-> "CloudTech Solutions",
        description |-> "We need a DevOps engineer to manage our cloud infrastructure using AWS, Kubernetes, and CI/CD pipelines.",
        requirements |-> <<"Docker", "Kubernetes", "AWS", "CI/CD", "4+ years experience">>] >>

\* fallback_resume_analysis: tech_skills
TechSkills ==
    <<"Python", "JavaScript", "React", "Node.js", "AWS", "Docker",
      "Kubernetes", "SQL", "PostgreSQL", "MongoDB", "Git", "TypeScript",
      "Java", "C++", "HTML", "CSS", "Vue.js", "Angular", "Django", "Flask">>

\* extract_skills_from_text: common_skills
CommonSkills ==
    <<"Python", "JavaScript", "React", "Node.js", "AWS", "Docker",
      "Kubernetes", "SQL", "TypeScript", "Git", "PostgreSQL", "MongoDB">>

\* calculate_match_score: common_words
CommonWords == {"the", "and", "or", "but", "in", "on", "at", "to", "for", "of", "with", "by"}

\* audit_resume: the phrases that mark a possibly fabricated claim
FabricationKeywords == {"worked at", "employed by", "certified in", "degree from"}

\* audit_resume: only lines longer than this are checked
MinLineLen == 20

(***************************************************************************)
(* ResumeAnalyzer                                                          *)
(***************************************************************************)
RECURSIVE SkillsIn(_, _, _)
\* [skill for skill in vocabulary if skill.lower() in text.lower()], text lower-cased
SkillsIn(vocabulary, lowered, i) ==
    IF i > Len(vocabulary) THEN <<>>
    ELSE (IF Contains(lowered, Lower(vocabulary[i])) THEN <<vocabulary[i]>> ELSE <<>>)
         \o SkillsIn(vocabulary, lowered, i + 1)

ExtractSkillsFromText(text) == SkillsIn(CommonSkills, Lower(text), 1)

RECURSIVE SkipRun(_, _, _)
\* the index after the run of character c that starts at i
SkipRun(s, c, i) ==
    IF i <= Len(s) /\ Char(s, i) = c THEN SkipRun(s, c, i + 1) ELSE i

\* re.findall(r'(\\d+)\\s*year[s]?', text) is non-empty: the raw pattern is a
\* backslash, one or more "d", a backslash, any number of "s", then "year"
YearsPatternMatches(text) ==
    \E i \in 1..Len(text) :
        /\ Char(text, i) = "\\"
        /\ \E j \in (i + 2)..SkipRun(text, "d", i + 1) :
              /\ j <= Len(text)
              /\ Char(text, j) = "\\"
              /\ LET k == SkipRun(text, "s", j + 1)
                 IN  k + 3 <= Len(text) /\ SubSeq(text, k, k + 3) = "year"

\* the text a backend reply carries: result[0]['generated_text'] of a non-empty
\* list, result['generated_text'] of a dict, '' otherwise
GeneratedText(body) ==
    IF body.shape \in {"list", "dict"} THEN body.text ELSE ""

\* extract_experience_years raises ValueError (int of the matched "\d") when
\* the pattern matches, and yields the default 3 otherwise
ParseRaises(body) == YearsPatternMatches(Lower(GeneratedText(body)))

ParseLlmAnalysis(body) ==
    [skills |-> ExtractSkillsFromText(GeneratedText(body)), experience_years |-> 3]

FallbackResumeAnalysis(resume_text) ==
    [skills |-> Take(SkillsIn(TechSkills, Lower(resume_text), 1), 10),
     experience_years |-> 3]

(***************************************************************************)
(* MatchScorer                                                             *)
(***************************************************************************)
JobText(job) ==
    job.title \o " " \o job.description \o " " \o Join(job.requirements, " ")

JobWords(job) == Words(Lower(JobText(job))) \ CommonWords

ResumeWords(resume) == Words(Lower(resume)) \ CommonWords

\* mutant: the percentage is returned as it is
ClampScore_NoClamp(overlap, total) == [num |-> 100 * overlap, den |-> total]

\* min(max(match_percentage, 30), 95) of match_percentage = overlap / total * 100
ClampScore(overlap, total) ==
    IF 100 * overlap < 30 * total THEN [num |-> 30, den |-> 1]
    ELSE IF 100 * overlap > 95 * total THEN [num |-> 95, den |-> 1]
    ELSE [num |-> 100 * overlap, den |-> total]

\* calculate_match_score; the score is the fraction num/den
CalculateMatchScore(resume, job) ==
    LET job_words == JobWords(job)
        resume_words == ResumeWords(resume)
    IN  IF job_words = {} THEN [num |-> 50, den |-> 1]
        ELSE ClampScore(Cardinality(job_words \cap resume_words), Cardinality(job_words))

(***************************************************************************)
(* ResumeTailor                                                            *)
(***************************************************************************)
\* generate_tailored_resume: the prompt sent to the backend
Prompt(job, master_resume) ==
    "\n        Create an ATS-optimized resume tailored for this job position.\n        \n        Job Title: "
    \o job.title \o "\n        Company: " \o job.company
    \o "\n        Requirements: " \o Join(job.requirements, ", ")
    \o "\n        Job Description: " \o Prefix(job.description, 500)
    \o "\n        \n        Original Resume: " \o Prefix(master_resume, 1500)
    \o "\n        \n        Instructions:\n        1. Optimize for ATS by including relevant keywords from job description\n        2. Highlight matching skills and experiences\n        3. Maintain accuracy - do NOT fabricate information\n        4. Adjust emphasis to match job requirements\n        5. Keep the same factual content but optimize presentation\n        \n        Generate the tailored resume:\n        "

RECURSIVE CleanedLines(_, _)
\* [line.strip() for line in lines if line.strip()]
CleanedLines(lines, i) ==
    IF i > Len(lines) THEN <<>>
    ELSE (IF Strip(lines[i]) # "" THEN <<Strip(lines[i])>> ELSE <<>>)
         \o CleanedLines(lines, i + 1)

ExtractResumeFromResponse(response, prompt) ==
    LET resume_part == IF Contains(response, prompt)
                       THEN Strip(Replace(response, prompt, ""))
                       ELSE response
    IN  Join(CleanedLines(Split(resume_part, "\\n"), 1), "\\n")

FallbackTemplate(job, master_resume, analysis) ==
    "\n        TAILORED RESUME FOR " \o Upper(job.title)
    \o "\n        \n        PROFESSIONAL SUMMARY\n        Experienced software professional with expertise in "
    \o Join(Take(analysis.skills, 5), ", ")
    \o ".\n        Strong background in software development and technology solutions.\n        \n        TECHNICAL SKILLS\n        "
    \o Join(analysis.skills, ", ")
    \o "\n        \n        " \o master_resume
    \o "\n        \n        ADDITIONAL NOTES\n        - Resume optimized for "
    \o job.company \o " " \o job.title
    \o " position\n        - Relevant experience in required technologies\n        "

\* mutant: the score returned is that of the master resume, not of the
\* text returned with it
CreateFallbackResume_ScoreOfMaster(job, master_resume, analysis) ==
    [content |-> FallbackTemplate(job, master_resume, analysis),
     match_score |-> CalculateMatchScore(master_resume, job)]

\* create_fallback_resume: (tailored_resume, match_score)
CreateFallbackResume(job, master_resume, analysis) ==
    LET tailored_resume == FallbackTemplate(job, master_resume, analysis)
    IN  [content |-> tailored_resume,
         match_score |-> CalculateMatchScore(tailored_resume, job)]

(***************************************************************************)
(* ConsistencyAuditor                                                      *)
(***************************************************************************)
\* set(text.lower().split('\\n'))
LineSet(text) == Range(Split(Lower(text), "\\n"))

\* the test of one new line, after line.strip()
IsConcerning(line) ==
    /\ Len(line) > MinLineLen
    /\ \E keyword \in FabricationKeywords : Contains(line, keyword)

\* the new lines that add 0.5 and one issue each
FlaggedLines(generated_resume, master_resume) ==
    {line \in LineSet(generated_resume) \ LineSet(master_resume) : IsConcerning(Strip(line))}

\* generated_lines - master_lines
NewLines(generated_resume, master_resume) ==
    LineSet(generated_resume) \ LineSet(master_resume)

\* the orders in which `for line in new_lines` may visit a set
Orderings(S) ==
    {order \in [1..Cardinality(S) -> S] :
        \A i, j \in 1..Cardinality(S) : order[i] = order[j] => i = j}

RECURSIVE ConcerningAdditions(_, _)
\* concerning_additions after the first n lines of the order were visited
ConcerningAdditions(order, n) ==
    IF n = 0 THEN <<>>
    ELSE ConcerningAdditions(order, n - 1)
         \o (IF IsConcerning(Strip(order[n])) THEN <<Strip(order[n])>> ELSE <<>>)

\* mutant: the cap of line 419 is missing
HallucinationScore_NoCap(flagged) == 5 * flagged

\* min(hallucination_score, 5.0) after 0.5 per flagged line, in tenths
HallucinationScore(flagged) == Min(5 * flagged, 50)

\* max(95 - (hallucination_score * 5), 70), in tenths
OverallScore(hallucination_score) == Max(950 - 5 * hallucination_score, 700)

\* mutant: < for <= in both comparisons
StatusOf_Strict(hallucination_score) ==
    IF hallucination_score < 10 THEN "passed"
    ELSE IF hallucination_score < 30 THEN "warning" ELSE "failed"

\* 'passed' if score <= 1.0 else ('warning' if score <= 3.0 else 'failed')
StatusOf(hallucination_score) ==
    IF hallucination_score <= 10 THEN "passed"
    ELSE IF hallucination_score <= 30 THEN "warning" ELSE "failed"

\* audit_resume with the new lines visited in the given order; issues is the
\* list of descriptions
AuditInOrder(order) ==
    LET additions == ConcerningAdditions(order, Len(order))
        hallucination_score == HallucinationScore(Len(additions))
    IN  [overall_score |-> OverallScore(hallucination_score),
         hallucination_score |-> hallucination_score,
         issues |-> [i \in 1..Len(additions) |->
                        "Potentially fabricated content: " \o Prefix(additions[i], 100) \o "..."],
         status |-> StatusOf(hallucination_score)]

\* audit_resume; issues holds the flagged lines, one issue each, in no order
AuditResume(generated_resume, master_resume) ==
    LET flagged == FlaggedLines(generated_resume, master_resume)
        hallucination_score == HallucinationScore(Cardinality(flagged))
    IN  [overall_score |-> OverallScore(hallucination_score),
         hallucination_score |-> hallucination_score,
         issues |-> flagged,
         status |-> StatusOf(hallucination_score)]

(***************************************************************************)
(* Persistence formats                                                     *)
(***************************************************************************)
\* f"{score:.1f}" of the fraction num/den, in tenths, ties to even
FormatTenths(score) ==
    LET q == (10 * score.num) \div score.den
        r == (10 * score.num) % score.den
    IN  IF 2 * r < score.den THEN q
        ELSE IF 2 * r > score.den THEN q + 1
        ELSE IF q % 2 = 0 THEN q ELSE q + 1

\* save_resume_and_report: generated_resumes/resume_{company}_{job_id}.txt
ResumePath(job) ==
    "generated_resumes/resume_" \o Lower(Replace(job.company, " ", "")) \o "_" \o job.id \o ".txt"

\* mutant: the report is named after the timestamp alone
ReportPath_NoJobId(job, stamp) == "reports/audit_report_" \o stamp \o ".txt"

\* save_resume_and_report: reports/audit_report_{job_id}_{timestamp}.txt
ReportPath(job, stamp) ==
    "reports/audit_report_" \o job.id \o "_" \o stamp \o ".txt"

\* search_jobs: jobs/job_{id}.json
JobPath(job) == "jobs/job_" \o job.id \o ".json"

\* what the resume file holds
ResumeFile(job, content, score) ==
    [title |-> job.title, company |-> job.company,
     match_score |-> FormatTenths(score), content |-> content]

\* what the report file holds
ReportFile(job, audit) ==
    [title |-> job.title, company |-> job.company,
     overall_score |-> audit.overall_score,
     hallucination_score |-> audit.hallucination_score,
     status |-> Upper(audit.status),
     issues |-> audit.issues]

(***************************************************************************)
(* The environment: what the run can meet                                  *)
(***************************************************************************)
\* the most recent file of resumes/: absent, of another suffix, unreadable, or
\* a .pdf / .docx with these pages / paragraphs
ResumeInputs ==
    { [kind |-> "missing", parts |-> <<>>],
      [kind |-> "unsupported", parts |-> <<>>],
      [kind |-> "unreadable", parts |-> <<>>],
      [kind |-> "pdf", parts |-> <<>>],
      [kind |-> "pdf", parts |-> <<"John Doe", "Python developer, worked at Acme Corp since 2019", "Skills: Python React AWS">>],
      [kind |-> "docx", parts |-> <<"Jane Roe is certified in AWS and Docker">>] }

RECURSIVE FlaggedText(_)
\* n distinct lines, each long enough and holding a fabrication phrase
FlaggedText(n) ==
    IF n = 0 THEN ""
    ELSE FlaggedText(n - 1) \o (IF n = 1 THEN "" ELSE "\\n")
         \o "Worked at Initech as lead " \o Char(LowerLetters, n)

\* flagged lines in the replies that end in warning (3.0) and in failed (3.5)
WarnLines == 6

FailLines == 7

\* what the backend may answer to the analysis request
AnalysisBodies ==
    { [shape |-> "list", text |-> "Skills: Python, React and AWS. Roles: Backend Developer"],
      [shape |-> "dict", text |-> "about \\d\\years of experience"] }

\* what the backend may answer to a tailoring request: the prompt echoed and
\* then lines the master resume does not hold; only such lines
TailorBodies(prompt) ==
    { [shape |-> "list", text |-> prompt \o "John Doe\\n \\n" \o FlaggedText(WarnLines) \o "\\n"],
      [shape |-> "dict", text |-> FlaggedText(FailLines)] }

\* requests.post raises, answers another status than 200, or answers 200
BackendOutcomes(bodies) ==
    {[kind |-> "exception", body |-> [shape |-> "other", text |-> ""]],
     [kind |-> "status", body |-> [shape |-> "other", text |-> ""]]}
    \cup {[kind |-> "ok", body |-> b] : b \in bodies}

\* datetime.now() as %Y%m%d_%H%M%S: the run is taken to stay within one second
Now == "20261102_235959"

\* exceptions injected into the per-job steps in one run
MaxFaults == 1

NumJobs == 3

(***************************************************************************)
(* State                                                                   *)
(***************************************************************************)
VARIABLES
    resume_file,      \* the most recent file of resumes/
    pc,               \* the position of run_automation
    master_resume,    \* run_automation's locals
    analysis,
    jobs,
    idx,              \* the index of the job of the for loop
    resume_content,
    match_score,
    audit_result,
    timestamp,        \* save_resume_and_report's local
    processed_count,
    jobFiles,         \* the files written, path -> what they hold
    resumeFiles,
    reportFiles,
    notified,         \* the jobs send_notification_email was called for, in order
    backendCalls,     \* the requests sent to the backend, in order
    analysis_backend, \* how the analysis request ended: "none", "failed", "ok"
    hist,             \* per job: what happened to it
    faults            \* exceptions injected so far

vars == <<resume_file, pc, master_resume, analysis, jobs, idx, resume_content, match_score,
          audit_result, timestamp, processed_count, jobFiles, resumeFiles,
          reportFiles, notified, backendCalls, analysis_backend, hist, faults>>

\* a local that is not assigned yet
Unset == [unset |-> TRUE]

\* Optional[str]
None == [is_none |-> TRUE, text |-> ""]

Some(text) == [is_none |-> FALSE, text |-> text]

NoFiles == [path \in {} |-> Unset]

NoHist ==
    [backend |-> "none", source |-> "none", audits |-> 0, first_score |-> -1,
     escalations |-> 0, saved_resume |-> 0, saved_report |-> 0,
     raised_at |-> "none", finished |-> FALSE]

\* the steps inside the per-job try
TrySteps == {"tailor", "audit", "escalate", "reaudit", "save_resume", "save_report", "notify"}

Init ==
    /\ resume_file \in ResumeInputs
    /\ pc = "start"
    /\ master_resume = None
    /\ analysis = Unset
    /\ jobs = <<>>
    /\ idx = 0
    /\ resume_content = ""
    /\ match_score = Unset
    /\ audit_result = Unset
    /\ timestamp = ""
    /\ processed_count = 0
    /\ jobFiles = NoFiles
    /\ resumeFiles = NoFiles
    /\ reportFiles = NoFiles
    /\ notified = <<>>
    /\ backendCalls = <<>>
    /\ analysis_backend = "none"
    /\ hist = [j \in 1..NumJobs |-> NoHist]
    /\ faults = 0

(***************************************************************************)
(* run_automation, step by step                                            *)
(***************************************************************************)
\* extract_pdf_text / extract_docx_text: every part followed by '\\n', stripped
ExtractText(parts) == Strip(Join(parts, "\\n") \o (IF parts = <<>> THEN "" ELSE "\\n"))

\* get_master_resume: None, or the text of the file
MasterResumeOf(input) ==
    IF input.kind \in {"pdf", "docx"} THEN Some(ExtractText(input.parts)) ELSE None

\* not master_resume
IsFalsy(optional) == optional.is_none \/ optional.text = ""

\* mutant: the early return of line 533 is missing
AfterMasterResume_NoReturn(optional) == "analyze"

\* the position after get_master_resume: line 531 returns when there is no resume
AfterMasterResume(optional) == IF IsFalsy(optional) THEN "aborted" ELSE "analyze"

\* Step 1: get the master resume
GetMasterResume ==
    /\ pc = "start"
    /\ master_resume' = MasterResumeOf(resume_file)
    /\ pc' = AfterMasterResume(MasterResumeOf(resume_file))
    /\ UNCHANGED <<resume_file, analysis, jobs, idx, resume_content, match_score, audit_result,
                   timestamp, processed_count, jobFiles, resumeFiles,
                   reportFiles, notified, backendCalls, analysis_backend, hist, faults>>

\* analyze_resume_with_llm: the parsed reply, or the fallback analysis when the
\* call raises, answers another status, or the parse raises
AnalysisOf(outcome, resume_text) ==
    IF outcome.kind = "ok" /\ ~ParseRaises(outcome.body)
    THEN ParseLlmAnalysis(outcome.body)
    ELSE FallbackResumeAnalysis(resume_text)

\* how a request to the backend ended
BackendResult(outcome) == IF outcome.kind = "ok" THEN "ok" ELSE "failed"

\* Step 2: analyze the resume
AnalyzeResume ==
    /\ pc = "analyze"
    /\ \E outcome \in BackendOutcomes(AnalysisBodies) :
          /\ analysis' = AnalysisOf(outcome, master_resume.text)
          /\ analysis_backend' = BackendResult(outcome)
    /\ backendCalls' = Append(backendCalls, "analysis")
    /\ pc' = "search"
    /\ UNCHANGED <<resume_file, master_resume, jobs, idx, resume_content, match_score, audit_result,
                   timestamp, processed_count, jobFiles, resumeFiles,
                   reportFiles, notified, hist, faults>>

\* Step 3: search_jobs writes one file per posting and returns the postings
SearchJobs ==
    /\ pc = "search"
    /\ LET found == MockJobs(Prefix(Now, 8))
       IN  /\ jobs' = found
           /\ jobFiles' = [path \in {JobPath(found[j]) : j \in 1..Len(found)} |->
                              CHOOSE job \in Range(found) : JobPath(job) = path]
    /\ idx' = 1
    /\ pc' = "tailor"
    /\ UNCHANGED <<resume_file, master_resume, analysis, resume_content, match_score, audit_result,
                   timestamp, processed_count, resumeFiles, reportFiles,
                   notified, backendCalls, analysis_backend, hist, faults>>

\* Step 3 fails: writing a job file raises, outside the per-job try; the outer
\* handler logs and raises again
SearchJobsRaises ==
    /\ pc = "search"
    /\ pc' = "crashed"
    /\ UNCHANGED <<resume_file, master_resume, analysis, jobs, idx, resume_content, match_score,
                   audit_result, timestamp, processed_count, jobFiles,
                   resumeFiles, reportFiles, notified, backendCalls, analysis_backend,
                   hist, faults>>

\* mutant: a failed call yields an empty resume instead of the fallback template
TailoredResume_NoFallback(outcome, job, master, an) ==
    IF outcome.kind = "ok"
    THEN LET content == ExtractResumeFromResponse(GeneratedText(outcome.body), Prompt(job, master))
         IN  [content |-> content, match_score |-> CalculateMatchScore(content, job)]
    ELSE [content |-> "", match_score |-> CalculateMatchScore("", job)]

\* generate_tailored_resume: the reply's resume and its score, or the fallback
\* resume when the call raises or answers another status
TailoredResume(outcome, job, master, an) ==
    IF outcome.kind = "ok"
    THEN LET content == ExtractResumeFromResponse(GeneratedText(outcome.body), Prompt(job, master))
         IN  [content |-> content, match_score |-> CalculateMatchScore(content, job)]
    ELSE CreateFallbackResume(job, master, an)

\* where the resume came from
SourceOf(outcome) == IF outcome.kind = "ok" THEN "backend" ELSE "fallback"

\* mutant: a failed request is sent again
AfterTailor_RetryFailed(outcome) == IF outcome.kind = "ok" THEN "audit" ELSE "tailor"

\* the position after generate_tailored_resume returned
AfterTailor(outcome) == "audit"

\* Step 4, line 550: tailor the resume of the current job
Tailor ==
    /\ pc = "tailor"
    /\ \E outcome \in BackendOutcomes(TailorBodies(Prompt(jobs[idx], master_resume.text))) :
          LET tailored == TailoredResume(outcome, jobs[idx], master_resume.text, analysis)
          IN  /\ resume_content' = tailored.content
              /\ match_score' = tailored.match_score
              /\ hist' = [hist EXCEPT ![idx].backend = BackendResult(outcome),
                                      ![idx].source = SourceOf(outcome)]
              /\ pc' = AfterTailor(outcome)
    /\ backendCalls' = Append(backendCalls, jobs[idx].id)
    /\ UNCHANGED <<resume_file, master_resume, analysis, jobs, idx, audit_result, timestamp,
                   processed_count, jobFiles, resumeFiles, reportFiles,
                   notified, analysis_backend, faults>>

\* mutant: the threshold of the warning (1.0) used for the regeneration
NeedsEscalation_AboveOne(audit) == audit.hallucination_score > 10

\* line 562: regenerate when the first audit's score is above 3.0
NeedsEscalation(audit) == audit.hallucination_score > 30

\* mutant: only a resume whose audit passed is saved
AfterAudit_SaveOnlyPassed(audit) ==
    IF audit.hallucination_score > 30 THEN "escalate"
    ELSE IF audit.status = "passed" THEN "save_resume" ELSE "notify"

\* the position after the first audit
AfterAudit(audit) == IF NeedsEscalation(audit) THEN "escalate" ELSE "save_resume"

\* line 555: audit the tailored resume
Audit ==
    /\ pc = "audit"
    /\ LET audit == AuditResume(resume_content, master_resume.text)
       IN  /\ audit_result' = audit
           /\ hist' = [hist EXCEPT ![idx].audits = @ + 1,
                                   ![idx].first_score = audit.hallucination_score]
           /\ pc' = AfterAudit(audit)
    /\ UNCHANGED <<resume_file, master_resume, analysis, jobs, idx, resume_content, match_score,
                   timestamp, processed_count, jobFiles, resumeFiles,
                   reportFiles, notified, backendCalls, analysis_backend, faults>>

\* line 564: the fallback resume replaces the tailored one; no backend call
Escalate ==
    /\ pc = "escalate"
    /\ LET regenerated == CreateFallbackResume(jobs[idx], master_resume.text, analysis)
       IN  /\ resume_content' = regenerated.content
           /\ match_score' = regenerated.match_score
    /\ hist' = [hist EXCEPT ![idx].escalations = @ + 1, ![idx].source = "escalation"]
    /\ pc' = "reaudit"
    /\ UNCHANGED <<resume_file, master_resume, analysis, jobs, idx, audit_result, timestamp,
                   processed_count, jobFiles, resumeFiles, reportFiles,
                   notified, backendCalls, analysis_backend, faults>>

\* mutant: the regenerated resume is notified without being saved
AfterReaudit_NotifyFirst(audit) == "notify"

\* the position after the audit of the regenerated resume
AfterReaudit(audit) == "save_resume"

\* line 565: audit the regenerated resume
Reaudit ==
    /\ pc = "reaudit"
    /\ LET audit == AuditResume(resume_content, master_resume.text)
       IN  /\ audit_result' = audit
           /\ pc' = AfterReaudit(audit)
    /\ hist' = [hist EXCEPT ![idx].audits = @ + 1]
    /\ UNCHANGED <<resume_file, master_resume, analysis, jobs, idx, resume_content, match_score,
                   timestamp, processed_count, jobFiles, resumeFiles,
                   reportFiles, notified, backendCalls, analysis_backend, faults>>

\* save_resume_and_report, lines 439-451: take the timestamp, write the resume
SaveResume ==
    /\ pc = "save_resume"
    /\ timestamp' = Now
    /\ resumeFiles' = (ResumePath(jobs[idx]) :> ResumeFile(jobs[idx], resume_content, match_score))
                      @@ resumeFiles
    /\ hist' = [hist EXCEPT ![idx].saved_resume = @ + 1]
    /\ pc' = "save_report"
    /\ UNCHANGED <<resume_file, master_resume, analysis, jobs, idx, resume_content, match_score,
                   audit_result, processed_count, jobFiles, reportFiles,
                   notified, backendCalls, analysis_backend, faults>>

\* save_resume_and_report, lines 453-477: write the audit report
SaveReport ==
    /\ pc = "save_report"
    /\ reportFiles' = (ReportPath(jobs[idx], timestamp) :> ReportFile(jobs[idx], audit_result))
                      @@ reportFiles
    /\ hist' = [hist EXCEPT ![idx].saved_report = @ + 1]
    /\ pc' = "notify"
    /\ UNCHANGED <<resume_file, master_resume, analysis, jobs, idx, resume_content, match_score,
                   audit_result, timestamp, processed_count, jobFiles,
                   resumeFiles, notified, backendCalls, analysis_backend, faults>>

\* line 573: the audit passed
ShouldNotify(audit) == audit.status \in {"passed", "warning"}

\* the position after a job: the next job of the for loop, or the end
NextJob(i) == IF i < Len(jobs) THEN "tailor" ELSE "done"

\* lines 573-576: call send_notification_email when the audit passed, count the job
Notify ==
    /\ pc = "notify"
    /\ notified' = IF ShouldNotify(audit_result)
                   THEN Append(notified, [job |-> idx, status |-> audit_result.status])
                   ELSE notified
    /\ processed_count' = processed_count + 1
    /\ hist' = [hist EXCEPT ![idx].finished = TRUE]
    /\ idx' = IF idx < Len(jobs) THEN idx + 1 ELSE idx
    /\ pc' = NextJob(idx)
    /\ UNCHANGED <<resume_file, master_resume, analysis, jobs, resume_content, match_score,
                   audit_result, timestamp, jobFiles, resumeFiles, reportFiles,
                   backendCalls, analysis_backend, faults>>

\* mutant: the exception of one job ends the run
AfterRaise_Propagates(i) == "crashed"

\* the position after the handler of line 578: continue with the next job
AfterRaise(i) == NextJob(i)

\* the requests sent by a step that raises: generate_tailored_resume raises
\* before its request (265-285) or after it, in create_fallback_resume
\* (312, 316); no other step of the try sends one
CallsOfRaisingStep(step, id) ==
    IF step = "tailor" THEN {<<>>, <<id>>} ELSE {<<>>}

\* lines 578-580: a step of the per-job try raises; the handler logs and goes on
\* with the next job
Raise ==
    /\ pc \in TrySteps
    /\ faults < MaxFaults
    /\ faults' = faults + 1
    /\ hist' = [hist EXCEPT ![idx].raised_at = pc]
    /\ \E calls \in CallsOfRaisingStep(pc, jobs[idx].id) : backendCalls' = backendCalls \o calls
    /\ idx' = IF idx < Len(jobs) THEN idx + 1 ELSE idx
    /\ pc' = AfterRaise(idx)
    /\ UNCHANGED <<resume_file, master_resume, analysis, jobs, resume_content, match_score,
                   audit_result, timestamp, processed_count, jobFiles,
                   resumeFiles, reportFiles, notified, analysis_backend>>

Next ==
    \/ GetMasterResume
    \/ AnalyzeResume
    \/ SearchJobs
    \/ SearchJobsRaises
    \/ Tailor
    \/ Audit
    \/ Escalate
    \/ Reaudit
    \/ SaveResume
    \/ SaveReport
    \/ Notify
    \/ Raise

Spec == Init /\ [][Next]_vars

(***************************************************************************)
(* audit_resume and calculate_match_score on their own                     *)
(***************************************************************************)
\* the most flagged lines a generated text holds
MaxFlagged == 12

\* a resume file that yields a text
ReadableInputs == {input \in ResumeInputs : ~IsFalsy(MasterResumeOf(input))}

\* master texts: the readable resumes, and one that holds two flagged lines
AuditMasters ==
    {MasterResumeOf(input).text : input \in ReadableInputs} \cup {FlaggedText(2) \o "\\n"}

\* generated texts: up to MaxFlagged flagged lines, the master itself, the
\* master in capitals or followed by a new line, lines that differ only in
\* case and blanks, short lines, and the fallback template around the master
AuditGenerated(master) ==
    {FlaggedText(n) : n \in 0..MaxFlagged}
    \cup {master, Upper(master), master \o FlaggedText(1),
          "  Worked at Initech as lead a  \\nworked at initech as lead a",
          "worked at\\ncertified in x\\nA degree from nowhere",
          FallbackTemplate(MockJobs(Prefix(Now, 8))[1], master, FallbackResumeAnalysis(master))}

InitAudit ==
    /\ resume_file \in ReadableInputs
    /\ pc = "audit_input"
    /\ master_resume \in {Some(master) : master \in AuditMasters}
    /\ resume_content \in AuditGenerated(master_resume.text)
    /\ analysis = Unset
    /\ jobs = MockJobs(Prefix(Now, 8))
    /\ idx = 1
    /\ match_score = Unset
    /\ audit_result = Unset
    /\ timestamp = Now
    /\ processed_count = 0
    /\ jobFiles = NoFiles
    /\ resumeFiles = NoFiles
    /\ reportFiles = NoFiles
    /\ notified = <<>>
    /\ backendCalls = <<>>
    /\ analysis_backend = "none"
    /\ hist = [j \in 1..NumJobs |-> NoHist]
    /\ faults = 0

\* audit_resume applied to the two texts, and the report of its result
AuditOnce ==
    /\ pc = "audit_input"
    /\ audit_result' = AuditResume(resume_content, master_resume.text)
    /\ reportFiles' = (ReportPath(jobs[idx], timestamp)
                         :> ReportFile(jobs[idx], AuditResume(resume_content, master_resume.text)))
                      @@ reportFiles
    /\ pc' = "audit_output"
    /\ UNCHANGED <<resume_file, master_resume, analysis, jobs, idx, resume_content,
                   match_score, timestamp, processed_count, jobFiles, resumeFiles,
                   notified, backendCalls, analysis_backend, hist, faults>>

SpecAudit == InitAudit /\ [][AuditOnce]_vars

\* generated texts whose lines end in line breaks, as a backend reply or the
\* text of a PDF page has them, and lines with blanks around them
LineBreakTexts ==
    {"Worked at Initech as lead a\nWorked at Initech as lead b",
     "John Doe\nCertified in underwater welding\nDegree from Nowhere University",
     "   worked at acme inc   \\n\tEmployed by Initech\t\t\t",
     "Employed by Initech since 2019\\n   Employed by Initech since 2019"}

InitLines ==
    /\ resume_file \in ReadableInputs
    /\ pc = "audit_input"
    /\ master_resume \in {Some(master) : master \in AuditMasters}
    /\ resume_content \in AuditGenerated(master_resume.text) \cup LineBreakTexts
    /\ analysis = Unset
    /\ jobs = MockJobs(Prefix(Now, 8))
    /\ idx = 1
    /\ match_score = Unset
    /\ audit_result = Unset
    /\ timestamp = Now
    /\ processed_count = 0
    /\ jobFiles = NoFiles
    /\ resumeFiles = NoFiles
    /\ reportFiles = NoFiles
    /\ notified = <<>>
    /\ backendCalls = <<>>
    /\ analysis_backend = "none"
    /\ hist = [j \in 1..NumJobs |-> NoHist]
    /\ faults = 0

SpecLines == InitLines /\ [][AuditOnce]_vars

\* job postings whose words are few: none, only stop-words, some
ScoreJobs ==
    {[id |-> "job_x", title |-> t, company |-> "Acme", description |-> d, requirements |-> r] :
        t \in {"", "The", "Data Engineer"},
        d \in {"", "and of the", "Python AND sql for the team", "We need python"},
        r \in {<<>>, <<"SQL">>, <<"to", "BY">>, <<"Python", "Go">>}}

ScoreResumes ==
    {"", "the and", "python sql", "Data engineer, we need PYTHON\n and go\tor SQL"}

InitScore ==
    /\ resume_file \in ReadableInputs
    /\ pc = "score_input"
    /\ master_resume = None
    /\ resume_content \in ScoreResumes
    /\ analysis = Unset
    /\ jobs \in {<<job>> : job \in ScoreJobs}
    /\ idx = 1
    /\ match_score = Unset
    /\ audit_result = Unset
    /\ timestamp = ""
    /\ processed_count = 0
    /\ jobFiles = NoFiles
    /\ resumeFiles = NoFiles
    /\ reportFiles = NoFiles
    /\ notified = <<>>
    /\ backendCalls = <<>>
    /\ analysis_backend = "none"
    /\ hist = [j \in 1..NumJobs |-> NoHist]
    /\ faults = 0

\* calculate_match_score applied to the resume and the job
ScoreOnce ==
    /\ pc = "score_input"
    /\ match_score' = CalculateMatchScore(resume_content, jobs[idx])
    /\ pc' = "score_output"
    /\ UNCHANGED <<resume_file, master_resume, analysis, jobs, idx, resume_content,
                   audit_result, timestamp, processed_count, jobFiles, resumeFiles,
                   reportFiles, notified, backendCalls, analysis_backend, hist, faults>>

SpecScore == InitScore /\ [][ScoreOnce]_vars

(***************************************************************************)
(* Properties of the run                                                   *)
(***************************************************************************)
JobIds == 1..NumJobs

\* the for loop is past job j
JobOver(j) == j < idx \/ pc = "done"

\* the for loop is in the try of job j
JobRunning(j) == idx = j /\ pc \in TrySteps

\* tailoring, the audit and, if there was one, the regeneration and its audit
\* of job j returned
AuditingComplete(j) ==
    /\ hist[j].audits >= 1
    /\ hist[j].raised_at \notin {"tailor", "audit", "escalate", "reaudit"}
    /\ ~(JobRunning(j) /\ pc \in {"escalate", "reaudit"})

\* both files of job j are there
Persisted(j) ==
    /\ ResumePath(jobs[j]) \in DOMAIN resumeFiles
    /\ ReportPath(jobs[j], Now) \in DOMAIN reportFiles

(* C1: the fallback regeneration of a job happens if and only if its first   *)
(* audit scored above 3.0, at most once, it is followed by one more audit    *)
(* and no other, and after that audit the job is in the persisting steps     *)
(* (or was ended by an exception), whatever the second score.                *)
C1_EscalationOnce ==
    \A j \in JobIds :
        LET h == hist[j]
        IN  /\ h.escalations <= 1
            /\ h.audits <= h.escalations + 1
            /\ h.escalations = 1 => h.audits >= 1 /\ h.first_score > 30
            /\ (h.audits >= 1 /\ h.first_score > 30 /\ h.raised_at # "escalate"
                  /\ ~(JobRunning(j) /\ pc = "escalate"))
               => h.escalations = 1
            /\ (h.escalations = 1 /\ h.raised_at # "reaudit"
                  /\ ~(JobRunning(j) /\ pc = "reaudit"))
               => h.audits = 2
            /\ (JobRunning(j) /\ h.audits = 2)
               => pc \in {"save_resume", "save_report", "notify"}
            /\ (JobOver(j) /\ h.audits = 2 /\ h.raised_at = "none")
               => h.saved_resume = 1 /\ h.saved_report = 1

C1_Witness ==
    \E j, k \in JobIds :
        /\ hist[j].escalations = 1 /\ hist[j].audits = 2 /\ hist[j].first_score = 35
        /\ hist[j].finished
        /\ hist[k].escalations = 0 /\ hist[k].first_score = 30 /\ hist[k].finished

C3_NotifyOnlyPassedAfterSave ==
    \A i \in 1..Len(notified) :
        LET n == notified[i]
        IN  /\ n.status \in {"passed", "warning"}
            /\ hist[n.job].saved_resume = 1
            /\ hist[n.job].saved_report = 1
            /\ Persisted(n.job)
            /\ reportFiles[ReportPath(jobs[n.job], Now)].status = Upper(n.status)
            /\ \A k \in 1..Len(notified) : notified[k].job = n.job => k = i

C3_Witness ==
    \E i, k \in 1..Len(notified) :
        /\ notified[i].status = "warning"
        /\ notified[k].status = "passed" /\ hist[notified[k].job].escalations = 1

(* C4: an exception in any step of one job is caught: the run does not end   *)
(* with it, the job is skipped (not counted), the loop goes on, and at the   *)
(* end every other job was tailored, audited and taken to its end.           *)
C4_PerJobIsolation ==
    /\ pc = "crashed" => faults = 0 /\ idx = 0
    /\ \A j \in JobIds :
          hist[j].raised_at # "none" => ~hist[j].finished /\ JobOver(j)
    /\ pc = "done" =>
          \A j \in JobIds :
              \/ hist[j].raised_at # "none"
              \/ hist[j].finished /\ hist[j].backend # "none" /\ hist[j].audits >= 1
    /\ processed_count = Cardinality({j \in JobIds : hist[j].finished})

C4_Witness ==
    /\ pc = "done"
    /\ hist[1].raised_at = "save_report"
    /\ hist[2].finished /\ hist[3].finished
    /\ processed_count = 2

(* C5: with no resume file, or one of another suffix, the run ends at once:  *)
(* no request to the backend, no analysis, no job search, no job processed,  *)
(* no file written, no notification.                                        *)
C5_AbortWithoutResume ==
    (resume_file.kind \in {"missing", "unsupported"} /\ pc # "start")
    => /\ pc = "aborted"
       /\ backendCalls = <<>> /\ analysis_backend = "none" /\ analysis = Unset
       /\ jobs = <<>> /\ idx = 0 /\ processed_count = 0
       /\ DOMAIN jobFiles = {} /\ DOMAIN resumeFiles = {} /\ DOMAIN reportFiles = {}
       /\ notified = <<>>
       /\ \A j \in JobIds : hist[j] = NoHist

C5_Witness == pc = "aborted" /\ resume_file.kind = "unsupported"

(* C6: a failed request to the backend does not end the run or skip the job: *)
(* a failed analysis request leaves the fallback analysis and the run goes   *)
(* on; a failed tailoring request leaves the fallback template and its       *)
(* score, and the job is audited and, unless a step raises, persisted.       *)
C6_BackendFailureFallsBack ==
    /\ analysis_backend = "failed" =>
          /\ analysis = FallbackResumeAnalysis(master_resume.text)
          /\ pc \notin {"start", "analyze", "aborted"}
    /\ \A j \in JobIds :
          hist[j].backend = "failed" =>
             /\ hist[j].source = "fallback"
             /\ hist[j].raised_at # "tailor"
             /\ (JobRunning(j) /\ pc = "audit") =>
                   /\ resume_content = FallbackTemplate(jobs[j], master_resume.text, analysis)
                   /\ match_score = CalculateMatchScore(resume_content, jobs[j])
             /\ (JobRunning(j) /\ pc # "audit") => hist[j].audits >= 1
             /\ (JobOver(j) /\ hist[j].raised_at = "none") =>
                   /\ hist[j].audits >= 1
                   /\ hist[j].finished
                   /\ Persisted(j)
                   /\ resumeFiles[ResumePath(jobs[j])].content
                        = FallbackTemplate(jobs[j], master_resume.text, analysis)

C6_Witness ==
    /\ analysis_backend = "failed"
    /\ pc = "done"
    /\ \E j \in JobIds : hist[j].backend = "failed" /\ hist[j].finished /\ Persisted(j)

(* C7: in every audit result the status is passed exactly when the score   *)
(* is at most 1.0, warning exactly when it is above 1.0 and at most 3.0,     *)
(* failed exactly when it is above 3.0; the status a report holds is that    *)
(* of the score the same report holds.                                       *)
C7_StatusFromScore ==
    /\ audit_result # Unset =>
          LET score == audit_result.hallucination_score
          IN  /\ audit_result.status = "passed" <=> score <= 10
              /\ audit_result.status = "warning" <=> (10 < score /\ score <= 30)
              /\ audit_result.status = "failed" <=> score > 30
    /\ \A path \in DOMAIN reportFiles :
          LET score == reportFiles[path].hallucination_score
          IN  /\ reportFiles[path].status = "PASSED" <=> score <= 10
              /\ reportFiles[path].status = "WARNING" <=> (10 < score /\ score <= 30)
              /\ reportFiles[path].status = "FAILED" <=> score > 30

C7_Witness ==
    /\ pc = "audit_output"
    /\ audit_result.hallucination_score = 10 /\ audit_result.status = "passed"
    /\ \E path \in DOMAIN reportFiles : reportFiles[path].status = "PASSED"

(* C8: in every audit result overall_score = max(95 - 5 * score, 70), it is  *)
(* between 70 and 95 (95 at score 0, 85 at 2, 70 at 5), and the score is     *)
(* between 0 and 5.                                                          *)
C8_OverallScore ==
    audit_result # Unset =>
       LET score == audit_result.hallucination_score
           overall == audit_result.overall_score
       IN  /\ 0 <= score /\ score <= 50
           /\ 700 <= overall /\ overall <= 950
           /\ overall = (IF 950 - 5 * score >= 700 THEN 950 - 5 * score ELSE 700)
           /\ score = 0 => overall = 950
           /\ score = 20 => overall = 850
           /\ score = 50 => overall = 700

C8_Witness ==
    /\ pc = "audit_output"
    /\ Cardinality(audit_result.issues) > 10
    /\ audit_result.hallucination_score = 50
    /\ audit_result.overall_score = 700

(* C9: calculate_match_score is 50 when the job has no word left after       *)
(* lower-casing, splitting on whitespace and dropping the stop-words, and    *)
(* otherwise 100 * |job words in the resume| / |job words| brought into      *)
(* [30, 95]; so it is always between 30 and 95.                              *)
C9_MatchScore ==
    match_score # Unset =>
       LET job_words == Words(Lower(JobText(jobs[idx]))) \ CommonWords
           resume_words == Words(Lower(resume_content)) \ CommonWords
           overlap == Cardinality(job_words \cap resume_words)
           total == Cardinality(job_words)
       IN  /\ 30 * match_score.den <= match_score.num
           /\ match_score.num <= 95 * match_score.den
           /\ total = 0 => match_score.num = 50 * match_score.den
           /\ (total > 0 /\ 100 * overlap < 30 * total) => match_score.num = 30 * match_score.den
           /\ (total > 0 /\ 100 * overlap > 95 * total) => match_score.num = 95 * match_score.den
           /\ (total > 0 /\ 30 * total <= 100 * overlap /\ 100 * overlap <= 95 * total)
              => match_score.num * total = 100 * overlap * match_score.den

C9_Witness ==
    /\ pc = "score_output"
    /\ JobText(jobs[idx]) = "The and of the to BY"
    /\ resume_content = "the and"
    /\ match_score = [num |-> 50, den |-> 1]

(* C10: a run with a master resume over the three postings in which no job   *)
(* raises leaves exactly three resume files and three report files, one of   *)
(* each for each job, whatever the backend answered and the audits found.    *)
C10_OneResumeOneReportPerJob ==
    (pc = "done" /\ faults = 0)
    => /\ Len(jobs) = NumJobs
       /\ Cardinality(DOMAIN resumeFiles) = NumJobs
       /\ Cardinality(DOMAIN reportFiles) = NumJobs
       /\ \A j \in JobIds :
             /\ Persisted(j)
             /\ hist[j].saved_resume = 1 /\ hist[j].saved_report = 1
             /\ resumeFiles[ResumePath(jobs[j])].title = jobs[j].title
             /\ reportFiles[ReportPath(jobs[j], Now)].title = jobs[j].title

C10_Witness ==
    /\ pc = "done" /\ faults = 0
    /\ Cardinality(DOMAIN resumeFiles) = NumJobs
    /\ \E j, k, l \in JobIds :
          /\ hist[j].backend = "failed"
          /\ hist[k].escalations = 1
          /\ hist[l].first_score = 30

\* the most new lines whose every order of iteration is tried
MaxOrdered == 4

(* C11 as stated: the score is min(0.5 * F, 5.0) and there are F issues, F    *)
(* the number of distinct lines (text between line breaks) of the generated  *)
(* text, lower-cased, that are not lines of the master text, are longer than *)
(* 20 characters and hold a fabrication phrase; equal texts give score 0,    *)
(* status passed and no issue.                                               *)
C11_AsStated ==
    audit_result # Unset =>
       LET lines(text) == Range(Split(Lower(text), "\n"))
           F == Cardinality({line \in lines(resume_content) \ lines(master_resume.text) :
                               /\ Len(line) > MinLineLen
                               /\ \E keyword \in FabricationKeywords : Contains(line, keyword)})
       IN  /\ audit_result.hallucination_score = Min(5 * F, 50)
           /\ Cardinality(audit_result.issues) = F
           /\ resume_content = master_resume.text =>
                 /\ audit_result.hallucination_score = 0
                 /\ audit_result.status = "passed"
                 /\ audit_result.issues = {}

(* C11 as the code has it: F counts the pieces between occurrences of the    *)
(* two characters backslash, n that are new and, with the blanks around them *)
(* removed, longer than 20 characters and hold a phrase; score and number of *)
(* issues are the same in every order of iteration; equal texts give 0,      *)
(* passed and no issue.                                                      *)
C11_AsImplemented ==
    audit_result # Unset =>
       LET new_lines == NewLines(resume_content, master_resume.text)
           F == Cardinality({line \in new_lines :
                               /\ Len(Strip(line)) > MinLineLen
                               /\ \E keyword \in FabricationKeywords : Contains(line, keyword)})
       IN  /\ audit_result.hallucination_score = Min(5 * F, 50)
           /\ Cardinality(audit_result.issues) = F
           /\ Cardinality(new_lines) <= MaxOrdered =>
                 \A order \in Orderings(new_lines) :
                     /\ AuditInOrder(order).hallucination_score = audit_result.hallucination_score
                     /\ Len(AuditInOrder(order).issues) = F
                     /\ AuditInOrder(order).status = audit_result.status
           /\ resume_content = master_resume.text =>
                 /\ audit_result.hallucination_score = 0
                 /\ audit_result.status = "passed"
                 /\ audit_result.issues = {}

C11_Witness ==
    /\ pc = "audit_output"
    /\ resume_content = "Worked at Initech as lead a\nWorked at Initech as lead b"
    /\ audit_result.hallucination_score = 5
    /\ Cardinality(audit_result.issues) = 1

\* the resume of job j is the fallback template, from a failed request or
\* from the regeneration, and audit_result is the audit of it
FallbackAudited(j) ==
    /\ JobRunning(j)
    /\ hist[j].source \in {"fallback", "escalation"}
    /\ pc \in {"save_resume", "save_report", "notify"}

(* C12 as stated: every line of the master resume is a line of the fallback  *)
(* resume, and a line flagged in the audit of the fallback resume is a line  *)
(* of the template, one that is there whatever the master resume holds.      *)
C12_AsStated ==
    \A j \in JobIds :
        FallbackAudited(j) =>
           /\ LineSet(master_resume.text) \subseteq LineSet(resume_content)
           /\ audit_result.issues \subseteq LineSet(FallbackTemplate(jobs[j], "", analysis))

(* C12 as the code has it: the master resume is in the fallback resume as    *)
(* one piece of text; its lines other than the first and the last are lines  *)
(* of the fallback resume; the audit flags no other line than the first and  *)
(* the last of the fallback resume, so its score is at most 1.0.             *)
C12_AsImplemented ==
    \A j \in JobIds :
        FallbackAudited(j) =>
           LET master_lines == Split(Lower(master_resume.text), "\\n")
               generated_lines == Split(Lower(resume_content), "\\n")
           IN  /\ Contains(resume_content, master_resume.text)
               /\ Len(generated_lines) = Len(master_lines)
               /\ \A i \in 2..(Len(master_lines) - 1) : generated_lines[i] = master_lines[i]
               /\ audit_result.issues
                     \subseteq {generated_lines[1], generated_lines[Len(generated_lines)]}
               /\ audit_result.hallucination_score <= 10
               /\ audit_result.status = "passed"

C12_Witness ==
    \E j \in JobIds :
        /\ FallbackAudited(j)
        /\ hist[j].escalations = 1
        /\ audit_result.hallucination_score = 5
        /\ \E line \in audit_result.issues :
              Contains(line, Split(Lower(master_resume.text), "\\n")[1])
        /\ Split(Lower(master_resume.text), "\\n")[1] \notin LineSet(resume_content)

\* how often a request was sent
TimesSent(request) ==
    Cardinality({i \in 1..Len(backendCalls) : backendCalls[i] = request})

(* C13: no request is sent twice: the analysis request at most once and      *)
(* before every other, the tailoring request of a job at most once, also     *)
(* when it failed and when the resume was regenerated; a job the loop has    *)
(* not reached has none; so there are at most N + 1 requests in a run.       *)
C13_BackendNeverRetried ==
    /\ TimesSent("analysis") <= 1
    /\ \A i \in 1..Len(backendCalls) : backendCalls[i] = "analysis" => i = 1
    /\ Len(backendCalls) <= NumJobs + 1
    /\ \A i \in 2..Len(backendCalls) :
          \E j \in 1..Len(jobs) : backendCalls[i] = jobs[j].id
    /\ \A j \in 1..Len(jobs) :
          /\ TimesSent(jobs[j].id) <= 1
          /\ hist[j].backend # "none" => TimesSent(jobs[j].id) = 1
          /\ (j > idx \/ (j = idx /\ pc = "tailor")) => TimesSent(jobs[j].id) = 0
    /\ pc = "done" => Len(backendCalls) = 1 + Cardinality({j \in JobIds :
                                                hist[j].backend # "none"
                                                \/ (hist[j].raised_at = "tailor"
                                                    /\ TimesSent(jobs[j].id) = 1)})

C13_Witness ==
    /\ pc = "done"
    /\ Len(backendCalls) = NumJobs + 1
    /\ analysis_backend = "failed"
    /\ \E j, k \in JobIds :
          /\ hist[j].backend = "failed" /\ TimesSent(jobs[j].id) = 1
          /\ hist[k].escalations = 1 /\ hist[k].audits = 2 /\ TimesSent(jobs[k].id) = 1

\* both files of job j were just written, or the run is over and has them
FilesWritten(j) ==
    /\ hist[j].saved_resume = 1 /\ hist[j].saved_report = 1
    /\ (JobRunning(j) /\ pc = "notify") \/ pc = "done"

(* C14: the files of a job go together, when they were just written and at   *)
(* the end of the run: the report is the audit of the text the resume file   *)
(* holds, and the match score in the resume file is the score of that text.  *)
(* After a regeneration the text is the fallback template and the report is  *)
(* that of the second audit, nothing is from the backend's reply; without    *)
(* one the text is that of the first tailoring and the report that of the    *)
(* first audit.                                                              *)
C14_ArtifactsConsistent ==
    \A j \in JobIds :
        FilesWritten(j) =>
           LET resume == resumeFiles[ResumePath(jobs[j])]
               report == reportFiles[ReportPath(jobs[j], Now)]
               audit == AuditResume(resume.content, master_resume.text)
               prompt == Prompt(jobs[j], master_resume.text)
               replies == {ExtractResumeFromResponse(GeneratedText(body), prompt) :
                              body \in TailorBodies(prompt)}
               fallback == FallbackTemplate(jobs[j], master_resume.text, analysis)
           IN  /\ report.hallucination_score = audit.hallucination_score
               /\ report.overall_score = audit.overall_score
               /\ report.status = Upper(audit.status)
               /\ report.issues = audit.issues
               /\ resume.match_score = FormatTenths(CalculateMatchScore(resume.content, jobs[j]))
               /\ hist[j].escalations = 1 =>
                     /\ resume.content = fallback /\ resume.content \notin replies
                     /\ hist[j].audits = 2 /\ hist[j].first_score > 30
                     /\ report.hallucination_score <= 10
               /\ hist[j].escalations = 0 =>
                     /\ hist[j].audits = 1
                     /\ report.hallucination_score = hist[j].first_score
                     /\ hist[j].source = "backend" => resume.content \in replies
                     /\ hist[j].source = "fallback" => resume.content = fallback

C14_Witness ==
    \E j, k \in JobIds :
        /\ hist[j].saved_report = 1 /\ hist[j].escalations = 1 /\ hist[j].first_score = 35
        /\ reportFiles[ReportPath(jobs[j], Now)].status = "PASSED"
        /\ resumeFiles[ResumePath(jobs[j])].content
             = FallbackTemplate(jobs[j], master_resume.text, analysis)
        /\ hist[k].saved_report = 1 /\ hist[k].escalations = 0 /\ hist[k].source = "backend"
        /\ reportFiles[ReportPath(jobs[k], Now)].hallucination_score = 30

====
